---- MODULE Spec2Model ----
(***************************************************************************)
(* Model of server.js: an Express application with one read endpoint       *)
(* (GET /api/page) and three write endpoints (POST /api/contact,           *)
(* /api/subscribe, /api/inquiry).  A write handler validates the body,     *)
(* sanitizes the fields, queues an INSERT whose callback runs later on the *)
(* event loop, starts transporter.sendMail and answers when the send       *)
(* settles.  Strings are sequences of tokens: a token is one character of  *)
(* plain text, "@", ".", a blank, or one whole markup tag.                 *)
(***************************************************************************)
EXTENDS Naturals, Sequences, FiniteSets

(* ---------------------------- bounds ----------------------------------- *)
MaxReq == 1        \* requests of any endpoint in Spec
MaxSub == 2        \* concurrent subscribe requests in SpecSub

(* ---------------------------- values ----------------------------------- *)
Undef == "undefined"                 \* the token of a field the body lacks
Absent == <<Undef>>                  \* a destructured field that is undefined
Tag == "<b>"                         \* one markup tag, kept as one token
Blank == " "

Names == {Absent, <<>>, <<"a">>, <<Tag, "a">>}
Messages == {Absent, <<>>, <<"m">>}
Products == {Absent, <<>>, <<"p">>}
Emails == {Absent, <<>>,
           <<"a", "@", "b", ".", "c">>,
           <<Tag, "a", "@", "b", ".", "c">>,
           <<"x", Blank, "a", "@", "b", ".", "c">>,
           <<"a", ".", "c">>,
           <<"a", "@", "b">>,
           <<"a", "@", Blank, ".", "c">>}
Paths == {"/", "/products", "/contact", "/aboutUs", "/contact/", "/unknown",
          "undefined", "constructor", "toString", "__proto__"}
SmtpErrors == {"EAUTH", "ECONNECTION"}

(* ------------------------- pure functions ------------------------------ *)
\* JavaScript's !x for a field of the body: undefined and "" are falsy.
Falsy(v) == v = Absent \/ v = <<>>

NonWs(t) == t # Blank

\* The test with the "\.\S+" tail of the pattern left out.
EmailRegexTest_NoDot(s) ==
  \E p \in 1..Len(s) :
     /\ p >= 2 /\ NonWs(s[p-1])
     /\ s[p] = "@"
     /\ p + 1 <= Len(s) /\ NonWs(s[p+1])

\* /\S+@\S+\.\S+/.test(s): an unanchored search.  A match needs a non-blank
\* character right before some "@", a non-empty non-blank run after it
\* that is followed by a "." and one more non-blank character.
EmailRegexTest(s) ==
  \E p \in 1..Len(s) : \E q \in 1..Len(s) :
     /\ p >= 2 /\ NonWs(s[p-1])
     /\ s[p] = "@"
     /\ q >= p + 2
     /\ \A i \in (p+1)..(q-1) : NonWs(s[i])
     /\ s[q] = "."
     /\ q + 1 <= Len(s) /\ NonWs(s[q+1])

IsTag(t) == t = Tag
KeepText(t) == ~IsTag(t)

\* sanitizeHtml(input, {allowedTags: [], allowedAttributes: {}}): every tag
\* is dropped, the text between the tags is kept.
sanitizeInput(input) == SelectSeq(input, KeepText)

\* The routes object literal of the page handler.
RouteKeys == {"/", "/products", "/contact", "/aboutUs"}
routes(path) ==
  CASE path = "/" -> "Homepage"
    [] path = "/products" -> "Products"
    [] path = "/contact" -> "ContactUs"
    [] path = "/aboutUs" -> "AboutUs"

\* Property names every object literal inherits from Object.prototype.
ObjectPrototypeKeys == {"constructor", "toString", "__proto__"}

\* routes[path]: own properties first, then the prototype chain.
RoutesLookup(path) ==
  IF path \in RouteKeys THEN [found |-> TRUE, kind |-> "component", text |-> <<routes(path)>>]
  ELSE IF path \in ObjectPrototypeKeys THEN [found |-> TRUE, kind |-> "inherited", text |-> <<path>>]
  ELSE [found |-> FALSE, kind |-> "none", text |-> <<>>]

\* The contact check with the message operand left out.
ContactMissing_NoMessage(name, email, message) == Falsy(name) \/ Falsy(email)

ContactMissing(name, email, message) == Falsy(name) \/ Falsy(email) \/ Falsy(message)
SubscribeMissing(email) == Falsy(email)
InquiryMissing(name, email, product, message) ==
  Falsy(name) \/ Falsy(email) \/ Falsy(product) \/ Falsy(message)

(* ------------------------------ state ---------------------------------- *)
VARIABLES
  req,          \* req[r]: the request r as received (endpoint, body or query)
  resp,         \* resp[r]: the response written on the wire for r
  jsonCalls,    \* jsonCalls[r]: calls of res.status(..).json(..) made for r
  dbst,         \* dbst[r]: state of the INSERT queued by r's handler
  cbRun,        \* cbRun[r]: the db.run callback of r has run
  mail,         \* mail[r]: state of r's transporter.sendMail call
  mailOptions,  \* mailOptions[r]: the message handed to sendMail
  mailErr,      \* mailErr[r]: error.message of a rejected sendMail
  sendAttempts, \* sendAttempts[r]: calls of transporter.sendMail made for r
  escaped,      \* escaped[r]: exceptions that left r's handler or callback
  contacts,     \* table contacts, rows in insertion order
  subscriptions,\* table subscriptions
  inquiries,    \* table inquiries
  alive         \* the node process is running

vars == <<req, resp, jsonCalls, dbst, cbRun, mail, mailOptions, mailErr,
          sendAttempts, escaped, contacts, subscriptions, inquiries, alive>>

Reqs == DOMAIN req

NoReq == [ep |-> "none", name |-> Absent, email |-> Absent, product |-> Absent,
          message |-> Absent, path |-> "undefined"]
NoResp == [status |-> 0, kind |-> "none", text |-> <<>>]
NoMail == [subject |-> <<>>, text |-> <<>>]

\* res.status(status).json({kind: text})
Json(status, kind, text) == [status |-> status, kind |-> kind, text |-> text]

\* res.headersSent: a response for r has been written already.
HeadersSent(r) == resp[r].status # 0

InitOf(n) ==
  /\ req = [r \in 1..n |-> NoReq]
  /\ resp = [r \in 1..n |-> NoResp]
  /\ jsonCalls = [r \in 1..n |-> 0]
  /\ dbst = [r \in 1..n |-> "none"]
  /\ cbRun = [r \in 1..n |-> FALSE]
  /\ mail = [r \in 1..n |-> "none"]
  /\ mailOptions = [r \in 1..n |-> NoMail]
  /\ mailErr = [r \in 1..n |-> ""]
  /\ sendAttempts = [r \in 1..n |-> 0]
  /\ escaped = [r \in 1..n |-> {}]
  /\ contacts = <<>>
  /\ subscriptions = <<>>
  /\ inquiries = <<>>
  /\ alive = TRUE

Init == InitOf(MaxReq)
InitSub == InitOf(MaxSub)

\* Requests are numbered in arrival order.
Arrives(r) == /\ alive
              /\ r \in Reqs
              /\ req[r].ep = "none"
              /\ \A q \in Reqs : q < r => req[q].ep # "none"

DbUnchanged == UNCHANGED <<contacts, subscriptions, inquiries>>

\* A handler that answers at once and touches neither the store nor SMTP.
Answer(r, request, response) ==
  /\ req' = [req EXCEPT ![r] = request]
  /\ resp' = [resp EXCEPT ![r] = response]
  /\ jsonCalls' = [jsonCalls EXCEPT ![r] = 1]
  /\ UNCHANGED <<dbst, cbRun, mail, mailOptions, mailErr, sendAttempts, escaped, alive>>
  /\ DbUnchanged

\* A handler that passed validation: db.run queues the INSERT, sendMail is
\* called, and the handler suspends at the await.
Proceed(r, request, options) ==
  /\ req' = [req EXCEPT ![r] = request]
  /\ dbst' = [dbst EXCEPT ![r] = "queued"]
  /\ mailOptions' = [mailOptions EXCEPT ![r] = options]
  /\ mail' = [mail EXCEPT ![r] = "sending"]
  /\ sendAttempts' = [sendAttempts EXCEPT ![r] = @ + 1]
  /\ UNCHANGED <<resp, jsonCalls, cbRun, mailErr, escaped, alive>>
  /\ DbUnchanged

(* ----------------------------- handlers -------------------------------- *)
\* app.get("/api/page")
GetPage(r, path) ==
  /\ Arrives(r)
  /\ LET request == [NoReq EXCEPT !.ep = "page", !.path = path]
         hit == RoutesLookup(path)
     IN IF hit.found
        THEN Answer(r, request, Json(200, hit.kind, hit.text))
        ELSE Answer(r, request, Json(404, "error", <<"Page not found">>))

\* app.post("/api/contact")
PostContact(r, name, email, message) ==
  /\ Arrives(r)
  /\ LET request == [NoReq EXCEPT !.ep = "contact", !.name = name, !.email = email,
                                  !.message = message]
         sanitizedName == sanitizeInput(name)
         sanitizedEmail == sanitizeInput(email)
         sanitizedMessage == sanitizeInput(message)
     IN IF ContactMissing(name, email, message)
        THEN Answer(r, request, Json(400, "error", <<"All fields are required">>))
        ELSE IF ~EmailRegexTest(email)
        THEN Answer(r, request, Json(400, "error", <<"Invalid email">>))
        ELSE Proceed(r, request,
                     [subject |-> <<"New Contact Form Submission">>,
                      text |-> <<sanitizedName, sanitizedEmail, sanitizedMessage>>])

\* app.post("/api/subscribe")
PostSubscribe(r, email) ==
  /\ Arrives(r)
  /\ LET request == [NoReq EXCEPT !.ep = "subscribe", !.email = email]
         sanitizedEmail == sanitizeInput(email)
     IN IF SubscribeMissing(email)
        THEN Answer(r, request, Json(400, "error", <<"Email is required">>))
        ELSE IF ~EmailRegexTest(email)
        THEN Answer(r, request, Json(400, "error", <<"Invalid email">>))
        ELSE Proceed(r, request,
                     [subject |-> <<"New Email Subscription">>,
                      text |-> <<sanitizedEmail>>])

\* app.post("/api/inquiry")
PostInquiry(r, name, email, product, message) ==
  /\ Arrives(r)
  /\ LET request == [NoReq EXCEPT !.ep = "inquiry", !.name = name, !.email = email,
                                  !.product = product, !.message = message]
         sanitizedName == sanitizeInput(name)
         sanitizedEmail == sanitizeInput(email)
         sanitizedProduct == sanitizeInput(product)
         sanitizedMessage == sanitizeInput(message)
     IN IF InquiryMissing(name, email, product, message)
        THEN Answer(r, request, Json(400, "error", <<"All fields are required">>))
        ELSE IF ~EmailRegexTest(email)
        THEN Answer(r, request, Json(400, "error", <<"Invalid email">>))
        ELSE Proceed(r, request,
                     [subject |-> <<"New Inquiry for ", sanitizedProduct>>,
                      text |-> <<sanitizedName, sanitizedEmail, sanitizedProduct,
                                 sanitizedMessage>>])

\* app.use((req, res) => ...): the catch-all for any other route.
CatchAll(r) ==
  /\ Arrives(r)
  /\ Answer(r, [NoReq EXCEPT !.ep = "other"], Json(404, "error", <<"Route not found">>))

(* ------------------------------ store ---------------------------------- *)
Row(id, name, email, product, message) ==
  [id |-> id, name |-> name, email |-> email, product |-> product, message |-> message]

\* INSERT INTO t ...: AUTOINCREMENT gives the next id; rows are never deleted.
Insert(table, name, email, product, message) ==
  Append(table, Row(Len(table) + 1, name, email, product, message))

HasEmail(table, email) == \E i \in 1..Len(table) : table[i].email = email

\* A plain INSERT into a table whose email column is not UNIQUE.
InsertOrIgnore_Plain(table, email) == Insert(table, Absent, email, Absent, Absent)

\* INSERT OR IGNORE INTO subscriptions (email): email is UNIQUE, a
\* conflicting row is skipped without an error.
InsertOrIgnore(table, email) ==
  IF HasEmail(table, email) THEN table
  ELSE Insert(table, Absent, email, Absent, Absent)

StoreMessage(ep) ==
  CASE ep = "contact" -> "Failed to save contact"
    [] ep = "subscribe" -> "Failed to save subscription"
    [] ep = "inquiry" -> "Failed to save inquiry"

SuccessMessage(ep) ==
  CASE ep = "contact" -> "Contact form submitted successfully"
    [] ep = "subscribe" -> "Subscription successful"
    [] ep = "inquiry" -> "Inquiry submitted successfully"

\* The store executes the statement queued by db.run; it may fail.
DbExec(r, fails) ==
  /\ alive
  /\ r \in Reqs
  /\ dbst[r] = "queued"
  /\ LET q == req[r]
         sName == sanitizeInput(q.name)
         sEmail == sanitizeInput(q.email)
         sProduct == sanitizeInput(q.product)
         sMessage == sanitizeInput(q.message)
     IN IF fails
        THEN /\ dbst' = [dbst EXCEPT ![r] = "failed"]
             /\ DbUnchanged
        ELSE CASE q.ep = "contact" ->
                    /\ contacts' = Insert(contacts, sName, sEmail, Absent, sMessage)
                    /\ dbst' = [dbst EXCEPT ![r] = "ok"]
                    /\ UNCHANGED <<subscriptions, inquiries>>
               [] q.ep = "subscribe" ->
                    /\ subscriptions' = InsertOrIgnore(subscriptions, sEmail)
                    /\ dbst' = [dbst EXCEPT ![r] =
                                  IF HasEmail(subscriptions, sEmail) THEN "ignored" ELSE "ok"]
                    /\ UNCHANGED <<contacts, inquiries>>
               [] q.ep = "inquiry" ->
                    /\ inquiries' = Insert(inquiries, sName, sEmail, sProduct, sMessage)
                    /\ dbst' = [dbst EXCEPT ![r] = "ok"]
                    /\ UNCHANGED <<contacts, subscriptions>>
  /\ UNCHANGED <<req, resp, jsonCalls, cbRun, mail, mailOptions, mailErr,
                 sendAttempts, escaped, alive>>

\* The callback (err) => {...} passed to db.run.  res.json on a response
\* that was already sent throws; nothing catches it in a callback, so the
\* process dies with an uncaught exception.
DbCallback(r) ==
  /\ alive
  /\ r \in Reqs
  /\ dbst[r] \in {"ok", "ignored", "failed"}
  /\ ~cbRun[r]
  /\ cbRun' = [cbRun EXCEPT ![r] = TRUE]
  /\ IF dbst[r] = "failed"
     THEN /\ jsonCalls' = [jsonCalls EXCEPT ![r] = @ + 1]
          /\ IF HeadersSent(r)
             THEN /\ escaped' = [escaped EXCEPT ![r] = @ \cup {"dbCallback"}]
                  /\ alive' = FALSE
                  /\ UNCHANGED resp
             ELSE /\ resp' = [resp EXCEPT ![r] =
                                Json(500, "error", <<StoreMessage(req[r].ep)>>)]
                  /\ UNCHANGED <<escaped, alive>>
     ELSE UNCHANGED <<jsonCalls, resp, escaped, alive>>
  /\ UNCHANGED <<req, dbst, mail, mailOptions, mailErr, sendAttempts>>
  /\ DbUnchanged

(* ------------------------------- SMTP ---------------------------------- *)
\* await transporter.sendMail(mailOptions) settles and the handler resumes
\* in its try/catch.  A res.json that throws inside try lands in catch; one
\* that throws inside catch rejects the handler's promise, which nothing
\* awaits: the runtime either only warns or ends the process.
MailResolves(r) ==
  /\ alive
  /\ r \in Reqs
  /\ mail[r] = "sending"
  /\ mail' = [mail EXCEPT ![r] = "sent"]
  /\ IF HeadersSent(r)
     THEN /\ jsonCalls' = [jsonCalls EXCEPT ![r] = @ + 2]
          /\ escaped' = [escaped EXCEPT ![r] = @ \cup {"handler"}]
          /\ alive' \in BOOLEAN
          /\ UNCHANGED resp
     ELSE /\ jsonCalls' = [jsonCalls EXCEPT ![r] = @ + 1]
          /\ resp' = [resp EXCEPT ![r] = Json(200, "message", <<SuccessMessage(req[r].ep)>>)]
          /\ UNCHANGED <<escaped, alive>>
  /\ UNCHANGED <<req, dbst, cbRun, mailOptions, mailErr, sendAttempts>>
  /\ DbUnchanged

MailRejects(r, message) ==
  /\ alive
  /\ r \in Reqs
  /\ mail[r] = "sending"
  /\ mail' = [mail EXCEPT ![r] = "failed"]
  /\ mailErr' = [mailErr EXCEPT ![r] = message]
  /\ jsonCalls' = [jsonCalls EXCEPT ![r] = @ + 1]
  /\ IF HeadersSent(r)
     THEN /\ escaped' = [escaped EXCEPT ![r] = @ \cup {"handler"}]
          /\ alive' \in BOOLEAN
          /\ UNCHANGED resp
     ELSE /\ resp' = [resp EXCEPT ![r] =
                        Json(500, "error", <<"Failed to send email: ", message>>)]
          /\ UNCHANGED <<escaped, alive>>
  /\ UNCHANGED <<req, dbst, cbRun, mailOptions, sendAttempts>>
  /\ DbUnchanged

(* -------------------------- specifications ----------------------------- *)
Next ==
  \/ \E r \in Reqs : \E path \in Paths : GetPage(r, path)
  \/ \E r \in Reqs : \E name \in Names : \E email \in Emails : \E message \in Messages :
        PostContact(r, name, email, message)
  \/ \E r \in Reqs : \E email \in Emails : PostSubscribe(r, email)
  \/ \E r \in Reqs : \E name \in Names : \E email \in Emails : \E product \in Products :
        \E message \in Messages : PostInquiry(r, name, email, product, message)
  \/ \E r \in Reqs : CatchAll(r)
  \/ \E r \in Reqs : \E fails \in BOOLEAN : DbExec(r, fails)
  \/ \E r \in Reqs : DbCallback(r)
  \/ \E r \in Reqs : MailResolves(r)
  \/ \E r \in Reqs : \E message \in SmtpErrors : MailRejects(r, message)

Spec == Init /\ [][Next]_vars

\* Subscribe requests only, several of them in flight together.
NextSub ==
  \/ \E r \in Reqs : \E email \in Emails : PostSubscribe(r, email)
  \/ \E r \in Reqs : \E fails \in BOOLEAN : DbExec(r, fails)
  \/ \E r \in Reqs : DbCallback(r)
  \/ \E r \in Reqs : MailResolves(r)
  \/ \E r \in Reqs : \E message \in SmtpErrors : MailRejects(r, message)

SpecSub == InitSub /\ [][NextSub]_vars

TypeOK ==
  /\ \A r \in Reqs : /\ resp[r].status \in {0, 200, 400, 404, 500}
                     /\ jsonCalls[r] \in 0..3
                     /\ dbst[r] \in {"none", "queued", "ok", "ignored", "failed"}
                     /\ mail[r] \in {"none", "sending", "sent", "failed"}
                     /\ sendAttempts[r] \in 0..1
  /\ alive \in BOOLEAN

(* ------------------------ vocabulary of the claims --------------------- *)
IsWrite(r) == req[r].ep \in {"contact", "subscribe", "inquiry"}

RequiredFields(ep) ==
  CASE ep = "contact" -> {"name", "email", "message"}
    [] ep = "subscribe" -> {"email"}
    [] ep = "inquiry" -> {"name", "email", "product", "message"}

MissingOrEmpty(v) == v = <<Undef>> \/ Len(v) = 0
MissingRequired(r) == \E f \in RequiredFields(req[r].ep) : MissingOrEmpty(req[r][f])

MissingText(ep) == IF ep = "subscribe" THEN "Email is required" ELSE "All fields are required"

\* Nothing was queued in the store and nothing handed to SMTP for r.
Untouched(r) ==
  /\ dbst[r] = "none" /\ ~cbRun[r]
  /\ mail[r] = "none" /\ sendAttempts[r] = 0 /\ mailOptions[r] = NoMail

IsRun(s, lo, hi) == lo <= hi /\ \A i \in lo..hi : s[i] # Blank

\* s holds: a non-blank run, "@", a non-blank run, ".", a non-blank run.
HasEmailShape(s) ==
  \E a \in 1..Len(s) : \E b \in 1..Len(s) : \E c \in 1..Len(s) : \E d \in 1..Len(s) :
     /\ IsRun(s, a, b)
     /\ b + 1 <= Len(s) /\ s[b+1] = "@"
     /\ IsRun(s, b + 2, c)
     /\ c + 1 <= Len(s) /\ s[c+1] = "."
     /\ d >= c + 2 /\ IsRun(s, c + 2, d)

HasAt(s) == \E i \in 1..Len(s) : s[i] = "@"
HasDot(s) == \E i \in 1..Len(s) : s[i] = "."

StripTags(s) == SelectSeq(s, LAMBDA t : t # "<b>")

(* ------------------------------- C1 ------------------------------------ *)
\* C1: a write request with a required field missing or empty is answered
\* 400 with the missing-field message of its endpoint (also when its email
\* is malformed too), and no insert is queued and no email sent for it.
C1_MissingFieldRejected ==
  \A r \in Reqs :
    (IsWrite(r) /\ MissingRequired(r)) =>
       /\ resp[r] = [status |-> 400, kind |-> "error", text |-> <<MissingText(req[r].ep)>>]
       /\ Untouched(r)
       /\ Len(contacts) + Len(subscriptions) + Len(inquiries) < Cardinality(Reqs)

C1_Witness ==
  \E r \in Reqs :
     /\ req[r].ep = "inquiry"
     /\ req[r].name = <<"a">> /\ req[r].message = <<"m">>
     /\ req[r].product = <<>>
     /\ req[r].email = <<"a", ".", "c">>
     /\ resp[r].status = 400

(* ------------------------------- C2 ------------------------------------ *)
\* C2: a write request whose email lacks the shape run "@" run "." run (in
\* particular one with no "@" or no ".") is answered 400 whatever the other
\* fields hold, nothing is queued or sent for it, and the body is
\* "Invalid email" when every required field is present.
C2_MalformedEmailRejected ==
  \A r \in Reqs :
    (IsWrite(r) /\ (~HasEmailShape(req[r].email) \/ ~HasAt(req[r].email)
                                                 \/ ~HasDot(req[r].email))) =>
       /\ resp[r].status = 400
       /\ Untouched(r)
       /\ ~MissingRequired(r) => resp[r].text = <<"Invalid email">>

C2_Witness ==
  \E r \in Reqs :
     /\ req[r].ep = "contact"
     /\ req[r].name = <<"<b>", "a">> /\ req[r].message = <<"m">>
     /\ req[r].email = <<"a", "@", " ", ".", "c">>
     /\ resp[r] = [status |-> 400, kind |-> "error", text |-> <<"Invalid email">>]

(* ------------------------------- C3 ------------------------------------ *)
ContactRowExists(r) ==
  \E i \in 1..Len(contacts) :
     /\ contacts[i].name = StripTags(req[r].name)
     /\ contacts[i].email = StripTags(req[r].email)
     /\ contacts[i].message = StripTags(req[r].message)

\* C3: a 200 answer to a valid contact request is never given for a request
\* whose row was not persisted: once the request's INSERT has run, a 200
\* answer implies that the row with the sanitized fields is in contacts.
C3_OkImpliesRowPersisted ==
  \A r \in Reqs :
    (req[r].ep = "contact" /\ ~MissingRequired(r) /\ HasEmailShape(req[r].email)
       /\ resp[r].status = 200 /\ dbst[r] # "queued") => ContactRowExists(r)

(* ------------------------------- C4 ------------------------------------ *)
Proceeded(r) == req[r].ep = "subscribe" /\ dbst[r] # "none"
RowsFor(email) == {i \in 1..Len(subscriptions) : subscriptions[i].email = email}
SubscribeOk == [status |-> 200, kind |-> "message", text |-> <<"Subscription successful">>]

C5_PersistenceGatesDispatch ==
  \A r \in Reqs :
     /\ mail[r] # "none" => dbst[r] \in {"ok", "ignored"}
     /\ mail[r] = "sent" => dbst[r] # "failed"

(* ------------------------------- C6 ------------------------------------ *)
\* C6: when the send of a request fails, the request's answer is 500
\* "Failed to send email: <message>", the send was attempted once and no
\* 200 is given.
C6_SendFailureAnswered500 ==
  \A r \in Reqs :
     mail[r] = "failed" =>
        /\ resp[r] = [status |-> 500, kind |-> "error",
                      text |-> <<"Failed to send email: ", mailErr[r]>>]
        /\ sendAttempts[r] = 1

(* ------------------------------- C7 ------------------------------------ *)
StoreText(ep) ==
  CASE ep = "contact" -> "Failed to save contact"
    [] ep = "subscribe" -> "Failed to save subscription"
    [] ep = "inquiry" -> "Failed to save inquiry"

\* C7: the answer a caller gets for a request whose insert failed is 500
\* with the store message of the endpoint, never 200.
C7_InsertFailureAnswered500 ==
  \A r \in Reqs :
     (dbst[r] = "failed" /\ resp[r].status # 0) =>
        resp[r] = [status |-> 500, kind |-> "error", text |-> <<StoreText(req[r].ep)>>]

(* ------------------------------- C8 ------------------------------------ *)
\* C8: no exception leaves a route handler or a database callback, and the
\* process keeps running.
C8_NoExceptionEscapes == alive /\ \A r \in Reqs : escaped[r] = {}

(* ------------------------------- C9 ------------------------------------ *)
\* C9: GET /api/page answers 200 with the component for the four known
\* paths and 404 "Page not found" for every other path value.
C9_PageLookupExact ==
  \A r \in Reqs :
     req[r].ep = "page" =>
        resp[r] =
          CASE req[r].path = "/" -> [status |-> 200, kind |-> "component", text |-> <<"Homepage">>]
            [] req[r].path = "/products" -> [status |-> 200, kind |-> "component", text |-> <<"Products">>]
            [] req[r].path = "/contact" -> [status |-> 200, kind |-> "component", text |-> <<"ContactUs">>]
            [] req[r].path = "/aboutUs" -> [status |-> 200, kind |-> "component", text |-> <<"AboutUs">>]
            [] OTHER -> [status |-> 404, kind |-> "error", text |-> <<"Page not found">>]

(* ------------------------------- C10 ----------------------------------- *)
\* C10: a response-sending method is called at most once per request.
C10_SingleResponseCall == \A r \in Reqs : jsonCalls[r] <= 1

====
